---- MODULE Spec2Model ----
(***************************************************************************)
(* Model of acme_plot.plot.plot_column (src/src/acme_plot/plot.py).        *)
(*                                                                         *)
(* plot_column is a function of a DataFrame and five configuration         *)
(* arguments.  It talks to two ambient collaborators: the module logger    *)
(* and matplotlib's pyplot state machine (the registry of open figures,    *)
(* whose last element is the current figure).  One call is modelled as the *)
(* ordered list of calls it makes on these collaborators (its trace) and   *)
(* the exception, if any, that ends it; the ambient state is obtained by   *)
(* replaying the trace.                                                    *)
(***************************************************************************)
EXTENDS Integers, Sequences, FiniteSets, TLC

VARIABLES figures, log, history

vars == <<figures, log, history>>

\* ---------------------------------------------------------------- bounds
MaxRows == 4
MaxThreshold == 4
SessRows == 2
MaxCalls == 2

\* ------------------------------------------------------- values and frames
NaN == "NaN"
None == <<>>
EmptyMap == <<>>

Range(s) == {s[i] : i \in 1..Len(s)}

RECURSIVE SeqsUpTo(_, _)
SeqsUpTo(S, n) ==
  IF n = 0 THEN {<<>>}
  ELSE LET shorter == SeqsUpTo(S, n - 1)
       IN  shorter \cup {Append(s, x) : s \in {t \in shorter : Len(t) = n - 1}, x \in S}

\* A DataFrame: its column names and, per column, the cell of every row.
\* The datetime cell of row i is i, so it identifies its row.  The metric cell
\* of row i is the number 10*i, except in row bad (0 for no such row), where
\* it is a Python object that cannot be converted to a number.
MkFrame(cols, key, bad) ==
  [columns |-> cols,
   data |-> [c \in cols |->
               IF c = "symbol" THEN key
               ELSE IF c = "datetime" THEN [i \in 1..Len(key) |-> i]
               ELSE [i \in 1..Len(key) |->
                       IF i = bad THEN <<"object", i>> ELSE <<"float", 10 * i>>]]]

\* ------------------------------------------------- pandas collaborators
\* Series.unique(): distinct values in order of first appearance; the hash
\* table behind it holds all missing values as one entry.
RECURSIVE UniqueAcc(_, _)
UniqueAcc(s, acc) ==
  IF s = <<>> THEN acc
  ELSE UniqueAcc(Tail(s), IF Head(s) \in Range(acc) THEN acc ELSE Append(acc, Head(s)))

\* Mutant: the distinct values in order of their last appearance.
RECURSIVE UniqueLastAcc(_, _, _)
UniqueLastAcc(s, i, acc) ==
  IF i = 0 THEN acc
  ELSE UniqueLastAcc(s, i - 1, IF s[i] \in Range(acc) THEN acc ELSE <<s[i]>> \o acc)

unique_keep_last(col) == UniqueLastAcc(col, Len(col), <<>>)

unique(col) == UniqueAcc(col, <<>>)

\* The elementwise == of a query expression: a missing value equals nothing,
\* itself included.
ElemEq(a, b) == a # NaN /\ b # NaN /\ a = b

\* df.query(f"{symbol_column} == @symbol"): the positions of the rows kept,
\* in row order.
RECURSIVE QueryAcc(_, _, _, _)
QueryAcc(col, symbol, i, acc) ==
  IF i > Len(col) THEN acc
  ELSE QueryAcc(col, symbol, i + 1,
                IF ElemEq(col[i], symbol) THEN Append(acc, i) ELSE acc)

query(df, symbol_column, symbol) == QueryAcc(df.data[symbol_column], symbol, 1, <<>>)

\* symbol_data[c]: the cells of column c at the rows kept.
Cells(df, rows, c) == [k \in 1..Len(rows) |-> df.data[c][rows[k]]]

\* str(symbol)
Str(symbol) == IF symbol = NaN THEN "nan" ELSE symbol

\* --------------------------------------------------------- plot_column
Ok == "none"

Done(trace) == [raised |-> Ok, trace |-> trace]
Raise(exc) == [raised |-> exc, trace |-> <<>>]

\* Sequencing of statements: what follows an exception is not executed.
Then(first, rest) ==
  IF first.raised # Ok THEN first
  ELSE [raised |-> rest.raised, trace |-> first.trace \o rest.trace]

\* f'`{column_name}` Over Time by Symbol', with BQ standing for the backquote.
Title(column_name) == <<"BQ", column_name, "BQ Over Time by Symbol">>

WarningText(n) ==
  <<"Large number of symbols (", n,
    "). Switching to subplot view for better visibility.">>

\* A keyword call f(label=symbol, **plot_kwargs): the same keyword given
\* twice is a TypeError raised at the call, before f runs.
\* A mapping of keywords is the ordered list of its <<keyword, value>> items.
HasKey(kw, k) == \E n \in 1..Len(kw) : kw[n][1] = k
WithLabel(kw, symbol) == <<<<"label", symbol>>>> \o kw

\* Line2D accepts its own properties as keywords and raises AttributeError on
\* any other; a line is built, and the keywords are looked at, inside
\* Axes.plot.
Line2DProperties == {"label", "linewidth", "color", "linestyle", "marker", "alpha"}
Accepted(kw) == \A n \in 1..Len(kw) : kw[n][1] \in Line2DProperties

\* Axes.plot converts the cells to draw to floats before it adds the line to
\* the axes; a cell that is no number makes the conversion raise, written
\* ConversionError here (TypeError or ValueError, by cell and version).
Plottable(cells) == \A k \in 1..Len(cells) : cells[k][1] = "float"

\* The faults Axes.plot raises for a series, keywords first; no line is added.
PlotFault(y, kw) ==
  IF ~Accepted(kw) THEN "AttributeError"
  ELSE IF ~Plottable(y) THEN "ConversionError"
  ELSE Ok

\* Subscripting a frame by a column it lacks raises KeyError.
Subscript(df, c) == IF c \in df.columns THEN Ok ELSE "KeyError"

\* Body of the grid loop for the i-th symbol (0-based).
GridPanel(df, column_name, kw, symbol_column, datetime_column, symbol, i) ==
  LET symbol_data == query(df, symbol_column, symbol)
  IN  IF Subscript(df, column_name) # Ok THEN Raise("KeyError")
      ELSE IF PlotFault(Cells(df, symbol_data, column_name), kw) # Ok
        THEN Raise(PlotFault(Cells(df, symbol_data, column_name), kw))
      ELSE Done(<<
        [op |-> "ax.plot", ax |-> i,
         x |-> Cells(df, symbol_data, datetime_column),
         y |-> Cells(df, symbol_data, column_name),
         kwargs |-> kw],
        [op |-> "ax.set_title", ax |-> i, text |-> <<Str(symbol)>>],
        [op |-> "ax.set_xlabel", ax |-> i, text |-> "Date"],
        [op |-> "ax.set_ylabel", ax |-> i, text |-> column_name],
        [op |-> "ax.grid", ax |-> i, on |-> TRUE],
        [op |-> "ax.tick_params", ax |-> i, rotation |-> 45] >>)

RECURSIVE GridLoop(_, _, _, _, _, _, _)
GridLoop(df, column_name, kw, symbol_column, datetime_column, symbols, i) ==
  IF i >= Len(symbols) THEN Done(<<>>)
  ELSE Then(GridPanel(df, column_name, kw, symbol_column, datetime_column,
                      symbols[i + 1], i),
            GridLoop(df, column_name, kw, symbol_column, datetime_column,
                     symbols, i + 1))

\* for j in range(i + 1, len(axes)): axes[j].set_visible(False), with i the
\* index the grid loop ended on.
RECURSIVE HideLoop(_, _)
HideLoop(j, n_axes) ==
  IF j >= n_axes THEN <<>>
  ELSE <<[op |-> "ax.set_visible", ax |-> j, visible |-> FALSE]>>
       \o HideLoop(j + 1, n_axes)

\* Mutant: the warning is logged once the figure is allocated.
GridLayoutWarnLate(df, column_name, kw, symbol_column, datetime_column, symbols) ==
  LET n_symbols == Len(symbols)
      n_cols == IF 3 < n_symbols THEN 3 ELSE n_symbols
  IN  IF n_cols = 0 THEN Raise("ZeroDivisionError")
      ELSE
        LET n_rows == (n_symbols + n_cols - 1) \div n_cols
            n_axes == IF n_symbols > 1 THEN n_rows * n_cols ELSE 1
        IN  Then(Done(<<[op |-> "subplots", nrows |-> n_rows, ncols |-> n_cols,
                         figsize |-> <<15, 5 * n_rows>>],
                        [op |-> "warning", text |-> WarningText(n_symbols)]>>),
            Then(GridLoop(df, column_name, kw, symbol_column, datetime_column,
                          symbols, 0),
                 Done(HideLoop((n_symbols - 1) + 1, n_axes)
                      \o <<[op |-> "suptitle", text |-> Title(column_name)],
                           [op |-> "tight_layout"]>>)))

GridLayout(df, column_name, kw, symbol_column, datetime_column, symbols) ==
  LET n_symbols == Len(symbols)
      n_cols == IF 3 < n_symbols THEN 3 ELSE n_symbols
  IN  Then(Done(<<[op |-> "warning", text |-> WarningText(n_symbols)]>>),
        IF n_cols = 0 THEN Raise("ZeroDivisionError")
        ELSE
          LET n_rows == (n_symbols + n_cols - 1) \div n_cols
              n_axes == IF n_symbols > 1 THEN n_rows * n_cols ELSE 1
          IN  Then(Done(<<[op |-> "subplots", nrows |-> n_rows, ncols |-> n_cols,
                           figsize |-> <<15, 5 * n_rows>>]>>),
              Then(GridLoop(df, column_name, kw, symbol_column, datetime_column,
                            symbols, 0),
                   Done(HideLoop((n_symbols - 1) + 1, n_axes)
                        \o <<[op |-> "suptitle", text |-> Title(column_name)],
                             [op |-> "tight_layout"]>>))))

\* Body of the combined loop for one symbol.  plt.plot is gca().plot: once
\* the call is entered the current figure gets its axes, a fault of Axes.plot
\* comes after that.
CombinedLine(df, column_name, kw, symbol_column, datetime_column, symbol) ==
  LET symbol_data == query(df, symbol_column, symbol)
  IN  IF Subscript(df, column_name) # Ok THEN Raise("KeyError")
      ELSE IF HasKey(kw, "label") THEN Raise("TypeError")
      ELSE IF PlotFault(Cells(df, symbol_data, column_name), WithLabel(kw, symbol)) # Ok
        THEN Then(Done(<<[op |-> "gca"]>>),
                  Raise(PlotFault(Cells(df, symbol_data, column_name),
                                  WithLabel(kw, symbol))))
      ELSE Done(<<
        [op |-> "gca"],
        [op |-> "plot",
         x |-> Cells(df, symbol_data, datetime_column),
         y |-> Cells(df, symbol_data, column_name),
         kwargs |-> WithLabel(kw, symbol)] >>)

RECURSIVE CombinedLoop(_, _, _, _, _, _, _)
CombinedLoop(df, column_name, kw, symbol_column, datetime_column, symbols, i) ==
  IF i >= Len(symbols) THEN Done(<<>>)
  ELSE Then(CombinedLine(df, column_name, kw, symbol_column, datetime_column,
                         symbols[i + 1]),
            CombinedLoop(df, column_name, kw, symbol_column, datetime_column,
                         symbols, i + 1))

CombinedLayout(df, column_name, kw, symbol_column, datetime_column, symbols) ==
  Then(Done(<<[op |-> "figure", figsize |-> <<10, 6>>]>>),
  Then(CombinedLoop(df, column_name, kw, symbol_column, datetime_column, symbols, 0),
       Done(<<[op |-> "title", text |-> Title(column_name)],
              [op |-> "xlabel", text |-> "Date"],
              [op |-> "ylabel", text |-> column_name],
              [op |-> "grid", on |-> TRUE],
              [op |-> "legend", loc |-> "upper left"],
              [op |-> "xticks", rotation |-> 45],
              [op |-> "tight_layout"]>>)))

MissingColumn(df, symbol_column, datetime_column) ==
  datetime_column \notin df.columns \/ symbol_column \notin df.columns

\* Mutant: the grid is used from the threshold on.
UseGridFromThreshold(n_symbols, subplot_threshold) == n_symbols >= subplot_threshold

UseGrid(n_symbols, subplot_threshold) == n_symbols > subplot_threshold

\* The function after its column check.
Render(df, column_name, plot_kwargs, subplot_threshold, symbol_column, datetime_column) ==
    LET kw == IF plot_kwargs = None THEN EmptyMap ELSE plot_kwargs[1]
        symbols == unique(df.data[symbol_column])
    IN  IF UseGrid(Len(symbols), subplot_threshold)
        THEN GridLayout(df, column_name, kw, symbol_column, datetime_column, symbols)
        ELSE CombinedLayout(df, column_name, kw, symbol_column, datetime_column, symbols)

\* Mutant: the figure is opened before the columns are checked.
plot_column_FigureFirst(df, column_name, plot_kwargs, subplot_threshold, symbol_column, datetime_column) ==
  IF MissingColumn(df, symbol_column, datetime_column)
  THEN [raised |-> "ValueError", trace |-> <<[op |-> "figure", figsize |-> <<10, 6>>]>>]
  ELSE Render(df, column_name, plot_kwargs, subplot_threshold,
              symbol_column, datetime_column)

\* Mutant: the metric column is checked with the other two, before drawing.
plot_column_MetricChecked(df, column_name, plot_kwargs, subplot_threshold, symbol_column, datetime_column) ==
  IF MissingColumn(df, symbol_column, datetime_column) THEN Raise("ValueError")
  ELSE IF Subscript(df, column_name) # Ok THEN Raise("KeyError")
  ELSE Render(df, column_name, plot_kwargs, subplot_threshold,
              symbol_column, datetime_column)

plot_column(df, column_name, plot_kwargs, subplot_threshold, symbol_column, datetime_column) ==
  IF MissingColumn(df, symbol_column, datetime_column) THEN Raise("ValueError")
  ELSE Render(df, column_name, plot_kwargs, subplot_threshold,
              symbol_column, datetime_column)

\* ------------------------------------ logging and pyplot collaborators
BlankAxes ==
  [lines |-> <<>>, title |-> <<>>, xlabel |-> "", ylabel |-> "", grid |-> FALSE,
   rotation |-> 0, visible |-> TRUE, legend |-> FALSE]

NewFigure(figsize, nrows, ncols) ==
  [figsize |-> figsize, nrows |-> nrows, ncols |-> ncols,
   axes |-> [k \in 1..(nrows * ncols) |-> BlankAxes],
   suptitle |-> <<>>, tight |-> FALSE]

\* plt.gca(): the current figure's current axes, created when it has none.
WithAxes(fig) == IF fig.axes = <<>> THEN [fig EXCEPT !.axes = <<BlankAxes>>] ELSE fig

Line(e) == [x |-> e.x, y |-> e.y, kwargs |-> e.kwargs]

\* A method call on axes[e.ax] of the figure plt.subplots returned.
OnAxes(fig, e) ==
  LET k == e.ax + 1
      a == fig.axes[k]
      b == CASE e.op = "ax.plot" -> [a EXCEPT !.lines = Append(@, Line(e))]
             [] e.op = "ax.set_title" -> [a EXCEPT !.title = e.text]
             [] e.op = "ax.set_xlabel" -> [a EXCEPT !.xlabel = e.text]
             [] e.op = "ax.set_ylabel" -> [a EXCEPT !.ylabel = e.text]
             [] e.op = "ax.grid" -> [a EXCEPT !.grid = e.on]
             [] e.op = "ax.tick_params" -> [a EXCEPT !.rotation = e.rotation]
             [] e.op = "ax.set_visible" -> [a EXCEPT !.visible = e.visible]
  IN  [fig EXCEPT !.axes[k] = b]

\* A pyplot function: it acts on the current axes of the current figure.
OnCurrentAxes(fig, e) ==
  LET f == WithAxes(fig)
      k == Len(f.axes)
      a == f.axes[k]
      b == CASE e.op = "plot" -> [a EXCEPT !.lines = Append(@, Line(e))]
             [] e.op = "title" -> [a EXCEPT !.title = e.text]
             [] e.op = "xlabel" -> [a EXCEPT !.xlabel = e.text]
             [] e.op = "ylabel" -> [a EXCEPT !.ylabel = e.text]
             [] e.op = "grid" -> [a EXCEPT !.grid = e.on]
             [] e.op = "legend" -> [a EXCEPT !.legend = TRUE]
             [] e.op = "xticks" -> [a EXCEPT !.rotation = e.rotation]
  IN  [f EXCEPT !.axes[k] = b]

AxesOps ==
  {"ax.plot", "ax.set_title", "ax.set_xlabel", "ax.set_ylabel", "ax.grid",
   "ax.tick_params", "ax.set_visible"}
PyplotAxesOps == {"plot", "title", "xlabel", "ylabel", "grid", "legend", "xticks"}

\* Mutant: plt.figure() hands back the current figure when there is one.
NewFigureCallReuse(figs, e) ==
  IF e.op = "subplots" THEN Append(figs, NewFigure(e.figsize, e.nrows, e.ncols))
  ELSE IF figs # <<>> THEN figs
  ELSE Append(figs, NewFigure(e.figsize, 0, 0))

\* plt.subplots(...) and plt.figure(...) open a new figure and make it
\* current; every other pyplot call acts on the current (the last) figure.
NewFigureCall(figs, e) ==
  IF e.op = "subplots" THEN Append(figs, NewFigure(e.figsize, e.nrows, e.ncols))
  ELSE Append(figs, NewFigure(e.figsize, 0, 0))

ApplyCall(st, e) ==
  IF e.op = "warning"
    THEN [st EXCEPT !.log = Append(@, [level |-> "WARNING", text |-> e.text])]
  ELSE IF e.op \in {"subplots", "figure"}
    THEN [st EXCEPT !.figures = NewFigureCall(@, e)]
  ELSE
    LET n == Len(st.figures)
        fig == st.figures[n]
        new == IF e.op \in AxesOps THEN OnAxes(fig, e)
               ELSE IF e.op \in PyplotAxesOps THEN OnCurrentAxes(fig, e)
               ELSE IF e.op = "gca" THEN WithAxes(fig)
               ELSE IF e.op = "suptitle" THEN [fig EXCEPT !.suptitle = e.text]
               ELSE [fig EXCEPT !.tight = TRUE]
    IN  [st EXCEPT !.figures[n] = new]

RECURSIVE Replay(_, _, _)
Replay(st, trace, i) ==
  IF i > Len(trace) THEN st ELSE Replay(ApplyCall(st, trace[i]), trace, i + 1)

\* ------------------------------------------------------------ the machine
Columns == {"datetime", "symbol", "price"}
Symbols == {"A", "B", "C"}
GroupValues == Symbols \cup {NaN}
Thresholds == -1..MaxThreshold

\* The row holding the unconvertible metric cell: none, or the last row.
BadRows(key) == {0, Len(key)}

Frames ==
  UNION {{MkFrame(cols, key, bad) : cols \in SUBSET Columns, bad \in BadRows(key)} :
           key \in SeqsUpTo(GroupValues, MaxRows)}

\* Absent, empty, an accepted option, the label option, and a misspelt option
\* that Line2D rejects.
KwargsChoices ==
  {None, <<EmptyMap>>, <<<< <<"linewidth", 2>> >>>>, <<<< <<"label", "series">> >>>>,
   <<<< <<"colour", "red">> >>>>}

SessionFrames ==
  {MkFrame(cols, key, 0) : cols \in {Columns, Columns \ {"symbol"}},
                        key \in SeqsUpTo({"A", "B"}, SessRows)}
SessionThresholds == {-1, 1}

Init ==
  /\ figures = <<>>
  /\ log = <<>>
  /\ history = <<>>

\* One call of plot_column from the interpreter's top level.
Call(df, column_name, plot_kwargs, subplot_threshold, symbol_column, datetime_column) ==
  LET r == plot_column(df, column_name, plot_kwargs, subplot_threshold,
                       symbol_column, datetime_column)
      st == Replay([figures |-> figures, log |-> log], r.trace, 1)
  IN  /\ figures' = st.figures
      /\ log' = st.log
      /\ history' = Append(history,
           [df |-> df, column_name |-> column_name, plot_kwargs |-> plot_kwargs,
            subplot_threshold |-> subplot_threshold,
            symbol_column |-> symbol_column, datetime_column |-> datetime_column,
            raised |-> r.raised, trace |-> r.trace,
            nfigures |-> Len(figures), nlog |-> Len(log)])

\* A fresh interpreter makes one call, on any frame.
Next ==
  /\ history = <<>>
  /\ \E df \in Frames, plot_kwargs \in KwargsChoices, subplot_threshold \in Thresholds :
       Call(df, "price", plot_kwargs, subplot_threshold, "symbol", "datetime")

Spec == Init /\ [][Next]_vars

\* A session of several calls on small frames.
NextSession ==
  /\ Len(history) < MaxCalls
  /\ \E df \in SessionFrames, subplot_threshold \in SessionThresholds :
       Call(df, "price", None, subplot_threshold, "symbol", "datetime")

SpecSession == Init /\ [][NextSession]_vars

\* ------------------------------------------- vocabulary of the properties
Calls == 1..Len(history)

\* The call passed the check of lines 35-36.
Passed(h) == ~(h.datetime_column \notin h.df.columns \/ h.symbol_column \notin h.df.columns)

GroupCol(h) == h.df.data[h.symbol_column]

\* G: the number of distinct values of the group column.
G(h) == Cardinality(Range(GroupCol(h)))

OpsAt(h, ops) == {k \in 1..Len(h.trace) : h.trace[k].op \in ops}

GridSelected(h) == h.trace # <<>> /\ h.trace[1].op = "warning"
CombinedSelected(h) == h.trace # <<>> /\ h.trace[1].op = "figure"

\* The figures and the log records that call i added to the ambient state.
Produced(i) ==
  SubSeq(figures, history[i].nfigures + 1,
         IF i < Len(history) THEN history[i + 1].nfigures ELSE Len(figures))
Logged(i) ==
  SubSeq(log, history[i].nlog + 1,
         IF i < Len(history) THEN history[i + 1].nlog ELSE Len(log))

LinesOf(fig) == UNION {Range(fig.axes[k].lines) : k \in 1..Len(fig.axes)}

\* The positions of the rows whose group cell is the value v (v taken as a
\* value: a missing cell is the missing value).
RowsOf(h, v) == {r \in 1..Len(GroupCol(h)) : GroupCol(h)[r] = v}

\* The k-th distinct group value in order of first appearance.
FirstAt(h, v) == CHOOSE r \in RowsOf(h, v) : \A q \in RowsOf(h, v) : r <= q
NthGroup(h, k) ==
  CHOOSE v \in Range(GroupCol(h)) :
    Cardinality({w \in Range(GroupCol(h)) : FirstAt(h, w) < FirstAt(h, v)}) = k - 1

\* The series of a figure, in drawing order: the group named on each (the
\* panel title in the grid, the line label in the combined chart) and the
\* datetime cells drawn.
SeriesOf(h, fig) ==
  IF GridSelected(h)
  THEN LET shown == {k \in 1..Len(fig.axes) : fig.axes[k].lines # <<>>}
       IN  [k \in 1..Cardinality(shown) |->
              [name |-> fig.axes[k].title[1], x |-> fig.axes[k].lines[1].x,
               drawn |-> Len(fig.axes[k].lines)]]
  ELSE IF fig.axes = <<>> THEN <<>>
  ELSE [k \in 1..Len(fig.axes[1].lines) |->
          [name |-> Str(fig.axes[1].lines[k].kwargs[1][2]),
           x |-> fig.axes[1].lines[k].x, drawn |-> 1]]

\* The options of the caller (none when plot_kwargs is absent).
Forwarded(h) == IF h.plot_kwargs = None THEN <<>> ELSE h.plot_kwargs[1]

\* The arguments carry none of the faults that the data and plotting
\* primitives raise: the metric column exists, its cells are numbers, and the
\* options are properties of Line2D.
Drawable(h) ==
  /\ h.column_name \in h.df.columns
  /\ \A r \in 1..Len(h.df.data[h.column_name]) : h.df.data[h.column_name][r][1] = "float"
  /\ \A n \in 1..Len(Forwarded(h)) : Forwarded(h)[n][1] \in Line2DProperties

\* ------------------------------------------------------------------ C1
\* C1: a call on a frame that lacks the time column or the group column
\* raises the missing-column error before any other work: it makes no call
\* on the logger or on pyplot, and the figure registry and the log are what
\* they were before the call.
C1_MissingColumnFailsFirst ==
  [][\A i \in 1..Len(history') :
       (i > Len(history) /\ ~Passed(history'[i]))
         => /\ history'[i].raised = "ValueError"
            /\ history'[i].trace = <<>>
            /\ figures' = figures
            /\ log' = log]_vars

C1_Witness ==
  \E i \in Calls :
    /\ "symbol" \in history[i].df.columns
    /\ "datetime" \notin history[i].df.columns
    /\ Len(history[i].df.data["symbol"]) > 0
    /\ history[i].raised = "ValueError"

\* ------------------------------------------------------------------ C2
\* C2: with both required columns present, the grid layout is selected iff
\* G > subplot_threshold and the combined layout iff G <= subplot_threshold;
\* exactly one of the two is selected.
C2_LayoutBoundary ==
  \A i \in Calls :
    LET h == history[i]
    IN  Passed(h) =>
          /\ GridSelected(h) <=> G(h) > h.subplot_threshold
          /\ CombinedSelected(h) <=> G(h) <= h.subplot_threshold
          /\ GridSelected(h) # CombinedSelected(h)

C2_Witness ==
  \E i \in Calls :
    /\ Passed(history[i])
    /\ G(history[i]) = history[i].subplot_threshold
    /\ G(history[i]) >= 2
    /\ CombinedSelected(history[i])
    /\ history[i].raised = Ok

\* ------------------------------------------------------------------ C3
\* C3: whenever the grid layout is selected (on a frame whose metric column
\* exists and holds numbers, with options Line2D accepts), the call completes with a grid of min(3, G) columns and ceiling(G / columns)
\* rows; the first G slots are visible and hold one line each, and the
\* remaining rows * columns - G slots are hidden.
C3_GridGeometry ==
  \A i \in Calls :
    LET h == history[i]
    IN  (Passed(h) /\ GridSelected(h) /\ Drawable(h)) =>
          /\ h.raised = Ok
          /\ Len(Produced(i)) = 1
          /\ LET fig == Produced(i)[1]
                 slots == 1..Len(fig.axes)
                 visible == {k \in slots : fig.axes[k].visible}
             IN  /\ fig.ncols = (IF G(h) < 3 THEN G(h) ELSE 3)
                 /\ fig.nrows * fig.ncols >= G(h)
                 /\ (fig.nrows - 1) * fig.ncols < G(h)
                 /\ Len(fig.axes) = fig.nrows * fig.ncols
                 /\ visible = 1..G(h)
                 /\ \A k \in visible : Len(fig.axes[k].lines) = 1
                 /\ \A k \in slots \ visible : fig.axes[k].lines = <<>>
                 /\ Cardinality(slots \ visible) = fig.nrows * fig.ncols - G(h)

\* ------------------------------------------------------------------ C4
\* C4: in a call that completes, every distinct value of the group column,
\* the missing value included, has exactly one drawn series, and that series
\* holds exactly the rows whose group cell is that value; so the series
\* partition the rows.
C4_SeriesPartitionRows ==
  \A i \in Calls :
    LET h == history[i]
    IN  (Passed(h) /\ h.raised = Ok) =>
          LET series == SeriesOf(h, Produced(i)[1])
          IN  /\ Len(series) = G(h)
              /\ \A v \in Range(GroupCol(h)) :
                   \E k \in 1..Len(series) :
                     /\ series[k].name = Str(v)
                     /\ series[k].drawn = 1
                     /\ Range(series[k].x) = RowsOf(h, v)
                     /\ Len(series[k].x) = Cardinality(RowsOf(h, v))
                     /\ \A m \in 1..Len(series) : series[m].name = Str(v) => m = k

\* ------------------------------------------------------------------ C5
\* C5: whatever keys plot_kwargs holds, the key label included, the call is
\* not refused for its options and every line-draw call receives exactly the
\* caller's options (none when plot_kwargs is absent), next to the label the
\* combined layout gives the line; the caller's mapping is left as it was.
C5_OptionsForwarded ==
  \A i \in Calls :
    LET h == history[i]
    IN  /\ h.raised # "TypeError"
        /\ \A k \in OpsAt(h, {"ax.plot"}) : h.trace[k].kwargs = Forwarded(h)
        /\ \A k \in OpsAt(h, {"plot"}) : Tail(h.trace[k].kwargs) = Forwarded(h)

\* ------------------------------------------------------------------ C6
\* C6 as stated: a call that fails, for whatever reason, leaves no figure,
\* panel or line of its own in the ambient drawing state.
C6_FailedCallDrawsNothing ==
  \A i \in Calls : history[i].raised # Ok => Produced(i) = <<>>

\* C6 amended: a call that fails before it allocates a figure (the
\* missing-column check, the division by a zero column count) leaves nothing.
\* A call that fails later leaves the one figure it had allocated, with what
\* it had drawn before the fault and nothing of what follows it:
\*  - the grid keeps all its rows * columns panels, none hidden; the combined
\*    figure has no axes when the fault precedes the entry into plt.plot (the
\*    metric-column lookup, the label keyword given twice) and one axes when
\*    the fault is raised inside plt.plot (a rejected option, a metric cell
\*    that is no number);
\*  - no line is drawn when the fault is the metric-column lookup or lies in
\*    the options, which fail on the first series;
\*  - when a metric cell is no number, the series of the groups that precede
\*    the failing one are drawn, in first-appearance order, and the failing
\*    series, the one that holds the row of that cell, and the later ones are
\*    not;
\*  - no overall title is set and the layout is not compacted.
LineCount(fig) == Cardinality({<<k, n>> \in (1..Len(fig.axes)) \X (1..MaxRows + 1) :
                                 n <= Len(fig.axes[k].lines)})

NonNumberRows(h) ==
  {r \in 1..Len(h.df.data[h.column_name]) : h.df.data[h.column_name][r][1] # "float"}

C6_FailedCallLeavesWhatItDrew ==
  \A i \in Calls :
    LET h == history[i]
    IN  h.raised # Ok =>
          /\ h.raised \in {"ValueError", "ZeroDivisionError"} => Produced(i) = <<>>
          /\ h.raised \notin {"ValueError", "ZeroDivisionError"} =>
               /\ Len(Produced(i)) = 1
               /\ LET fig == Produced(i)[1]
                      series == SeriesOf(h, fig)
                      n == LineCount(fig)
                  IN  /\ fig.suptitle = <<>> /\ fig.tight = FALSE
                      /\ GridSelected(h) =>
                           /\ Len(fig.axes) = fig.nrows * fig.ncols
                           /\ \A k \in 1..Len(fig.axes) : fig.axes[k].visible
                      /\ CombinedSelected(h) =>
                           Len(fig.axes) = (IF h.raised \in {"KeyError", "TypeError"}
                                            THEN 0 ELSE 1)
                      /\ h.raised \in {"KeyError", "TypeError", "AttributeError"} => n = 0
                      /\ h.raised = "ConversionError" =>
                           /\ n < G(h)
                           /\ Len(series) = n
                           /\ \A k \in 1..n :
                                /\ series[k].name = Str(NthGroup(h, k))
                                /\ Range(series[k].x) \cap NonNumberRows(h) = {}
                           /\ RowsOf(h, NthGroup(h, n + 1)) \cap NonNumberRows(h) # {}

C6_Witness ==
  \E i \in Calls :
    /\ history[i].raised = "ConversionError"
    /\ CombinedSelected(history[i])
    /\ Len(Produced(i)) = 1
    /\ Len(Produced(i)[1].axes) = 1
    /\ Len(Produced(i)[1].axes[1].lines) = 2

\* ------------------------------------------------------------------ C7
\* C7: a call emits exactly one warning when the grid layout is selected
\* (G > subplot_threshold) and none otherwise (combined layout, missing
\* column); the warning reports G and precedes the allocation of the figure;
\* the log grows by exactly the warnings emitted.
C7_WarningIffGrid ==
  \A i \in Calls :
    LET h == history[i]
        warned == OpsAt(h, {"warning"})
        allocated == OpsAt(h, {"subplots", "figure"})
        expected == IF Passed(h) /\ G(h) > h.subplot_threshold THEN 1 ELSE 0
    IN  /\ Cardinality(warned) = expected
        /\ \A k \in warned :
             /\ h.trace[k].text = WarningText(G(h))
             /\ \A f \in allocated : k < f
        /\ Len(Logged(i)) = expected
        /\ \A k \in 1..Len(Logged(i)) :
             /\ Logged(i)[k].level = "WARNING"
             /\ Logged(i)[k].text[2] = G(h)

C7_Witness ==
  \E i \in Calls :
    /\ GridSelected(history[i])
    /\ G(history[i]) = 4
    /\ history[i].raised = Ok
    /\ Len(Logged(i)) = 1
    /\ Len(Produced(i)) = 1

\* ------------------------------------------------------------------ C8
\* C8: two calls of a session with identical arguments end the same way and
\* leave figures and log records with identical structure (layout, grid
\* dimensions, panels, hidden panels, lines and their rows, titles, labels),
\* whatever was drawn before each of them.
SameArguments(a, b) ==
  /\ a.df = b.df
  /\ a.column_name = b.column_name
  /\ a.plot_kwargs = b.plot_kwargs
  /\ a.subplot_threshold = b.subplot_threshold
  /\ a.symbol_column = b.symbol_column
  /\ a.datetime_column = b.datetime_column

C8_RepeatedCallSameChart ==
  \A i \in Calls : \A j \in Calls :
    (i < j /\ SameArguments(history[i], history[j])) =>
      /\ history[i].raised = history[j].raised
      /\ Produced(i) = Produced(j)
      /\ Logged(i) = Logged(j)

C8_Witness ==
  \E i \in Calls : \E j \in Calls :
    /\ i < j
    /\ SameArguments(history[i], history[j])
    /\ history[j].raised = Ok
    /\ G(history[j]) = 2
    /\ Len(Produced(j)) = 1
    /\ LinesOf(Produced(j)[1]) # {}

\* ------------------------------------------------------------------ C9
\* C9: series are drawn in the order in which the distinct group values first
\* appear in the rows: the k-th series drawn (panel slot k - 1 of the grid,
\* k-th line of the combined chart) is named after the k-th first-appearing
\* value, and every row drawn in it has that value in its group cell.
C9_FirstAppearanceOrder ==
  \A i \in Calls :
    LET h == history[i]
    IN  (Passed(h) /\ h.raised = Ok) =>
          LET series == SeriesOf(h, Produced(i)[1])
          IN  /\ Len(series) = G(h)
              /\ \A k \in 1..Len(series) :
                   /\ series[k].name = Str(NthGroup(h, k))
                   /\ Range(series[k].x) \subseteq RowsOf(h, NthGroup(h, k))

C9_Witness ==
  \E i \in Calls :
    LET h == history[i]
    IN  /\ Passed(h) /\ h.raised = Ok
        /\ GroupCol(h) = <<"C", "A", "C", "B">>
        /\ GridSelected(h)
        /\ Produced(i)[1].axes[1].title = <<"C">>
        /\ Produced(i)[1].axes[3].title = <<"B">>

\* ----------------------------------------------------------------- C10
\* C10: every call that passes the missing-column check adds exactly one
\* figure to the registry and no call removes or changes an earlier one: after
\* any run of calls the registry holds one figure per call that passed the
\* check, and the current figure is the one of the latest such call.
C10_OneFigurePerPassedCall ==
  /\ Len(figures) = Cardinality({i \in Calls : Passed(history[i])})
  /\ \A i \in Calls :
       /\ Passed(history[i]) => Len(Produced(i)) = 1
       /\ ~Passed(history[i]) => Produced(i) = <<>>

====
